---------------------------- MODULE Spec2Model ----------------------------
(***************************************************************************)
(* Model of raster_to_rgb.py: the conversion of three bands of a raster    *)
(* to an 8-bit RGB image (scale_to_8bit, convert_raster_to_rgb,            *)
(* create_world_file, main).                                               *)
(*                                                                         *)
(* Samples are records: Num(v) is the number v, NaN is the floating-point  *)
(* not-a-number, None is Python's None (for nodata, min_value, max_value). *)
(* Integer element types keep their 16-bit width: NumPy subtracts an       *)
(* int16/uint16 scalar from an int16/uint16 array in that type, modulo     *)
(* 2^16.  Floating-point values are modelled by exact rationals n/d (no    *)
(* rounding error); the sample values used are exactly representable.      *)
(* The explicit bounds min_value / max_value are Python numbers: PyFloat(x)*)
(* as main passes them (argparse type=float), PyFloat(x) or PyInt(x) when  *)
(* convert_raster_to_rgb is called directly.  An integer array minus a     *)
(* Python float is computed in float64; minus a Python int that fits the   *)
(* element type it is computed in the element type.                        *)
(***************************************************************************)
EXTENDS Integers, Sequences, FiniteSets, TLC

\* Pixels per band (height * width) of the modelled raster.
NumPixels == 1
\* Largest band count of a modelled source raster.
MaxBands == 3

None == [k |-> "none", v |-> 0]
NaN == [k |-> "nan", v |-> 0]
Num(x) == [k |-> "num", v |-> x]
\* A Python float and a Python int
PyFloat(x) == [k |-> "float", v |-> x]
PyInt(x) == [k |-> "int", v |-> x]

IsNone(x) == x.k = "none"
isnan(x) == x.k = "nan"

DTypes == {"int16", "uint16", "float32"}

\* Sample values a band of each element type may hold.
SampleValues(dt) ==
  CASE dt = "int16" -> {Num(-20000), Num(0), Num(12000), Num(20000)}
    [] dt = "uint16" -> {Num(0), Num(10000), Num(15000), Num(65535)}
    [] OTHER -> {NaN, Num(0), Num(10000), Num(15000)}

\* Values of min_value / max_value: floats or ints (the ints within the range
\* of the element type).
DomainValues(dt, kind) ==
  {[k |-> kind, v |-> x.v] : x \in {y \in SampleValues(dt) : y.k = "num"}}

\* The no-data sentinels of a source (src.nodata): absent, a number, or NaN
\* for a floating-point raster.
NodataValues(dt) ==
  IF dt = "float32" THEN {None, Num(0), NaN} ELSE {None, Num(0)}

\* Positions of the (3, height, width) array, flattened channel by channel.
Positions == 1..(3 * NumPixels)

-----------------------------------------------------------------------------
(* NumPy arithmetic *)

\* a - b in the element type dt: int16 and uint16 wrap modulo 2^16.
Sub(dt, a, b) ==
  CASE dt = "int16" -> ((a - b + 32768) % 65536) - 32768
    [] dt = "uint16" -> (a - b) % 65536
    [] OTHER -> a - b

\* a != b elementwise (IEEE: NaN differs from everything, itself included).
NotEqual(a, b) ==
  IF isnan(a) \/ isnan(b) THEN TRUE ELSE a.v # b.v

\* The validity mask: bands_data != nodata, or ~np.isnan(bands_data).
ValidMask(bands_data, nodata) ==
  [i \in DOMAIN bands_data |->
     IF ~IsNone(nodata) THEN NotEqual(bands_data[i], nodata)
     ELSE ~isnan(bands_data[i])]

\* bands_data[valid_mask]
Selected(bands_data, valid_mask) ==
  {bands_data[i] : i \in {j \in DOMAIN bands_data : valid_mask[j]}}

\* np.min / np.max of a non-empty selection: NaN propagates.
NpMin(S) ==
  IF \E x \in S : isnan(x) THEN NaN
  ELSE Num(CHOOSE m \in {x.v : x \in S} : \A y \in S : m <= y.v)

NpMax(S) ==
  IF \E x \in S : isnan(x) THEN NaN
  ELSE Num(CHOOSE m \in {x.v : x \in S} : \A y \in S : m >= y.v)

\* np.clip(n / d * 255, 0, 255).astype(np.uint8) for the float n/d, d # 0:
\* clip first, then the cast drops the fraction.
ClipToUint8(n, d) ==
  LET nn == IF d < 0 THEN -n ELSE n
      dd == IF d < 0 THEN -d ELSE d
  IN IF nn <= 0 THEN 0
     ELSE IF nn >= dd THEN 255
     ELSE (nn * 255) \div dd

\* Outcomes of casting a float NaN to uint8 (undefined in C; the build decides).
NaNCastOutcomes == {0, 128, 255}

-----------------------------------------------------------------------------
(* The two scaling paths.  dt is the array's element type, c the outcome   *)
(* the build gives to a cast of NaN to uint8.                              *)

Zeros(bands_data) == [i \in DOMAIN bands_data |-> 0]

\* Mutant of scale_to_8bit: the minimum and maximum are taken per channel
\* instead of over the three bands jointly.
scale_to_8bit_PerChannel(dt, bands_data, nodata, c) ==
  LET valid_mask == ValidMask(bands_data, nodata)
      n == Len(bands_data) \div 3
      chan(i) == {j \in DOMAIN bands_data : (j - 1) \div n = (i - 1) \div n}
      sel(i) == {bands_data[j] : j \in {k \in chan(i) : valid_mask[k]}}
      lo(i) == IF sel(i) # {} THEN NpMin(sel(i)) ELSE Num(0)
      hi(i) == IF sel(i) # {} THEN NpMax(sel(i)) ELSE Num(1)
  IN [i \in DOMAIN bands_data |->
        IF ~NotEqual(hi(i), lo(i)) THEN 0
        ELSE IF ~valid_mask[i] THEN 0
        ELSE IF isnan(bands_data[i]) \/ isnan(lo(i)) \/ isnan(hi(i)) THEN c
        ELSE ClipToUint8(Sub(dt, bands_data[i].v, lo(i).v),
                         Sub(dt, hi(i).v, lo(i).v))]

\* scale_to_8bit(bands_data, nodata): automatic scaling with the global
\* minimum and maximum of the valid samples of all three bands.
scale_to_8bit(dt, bands_data, nodata, c) ==
  LET valid_mask == ValidMask(bands_data, nodata)
      any_valid == \E i \in DOMAIN bands_data : valid_mask[i]
      global_min == IF any_valid THEN NpMin(Selected(bands_data, valid_mask))
                    ELSE Num(0)
      global_max == IF any_valid THEN NpMax(Selected(bands_data, valid_mask))
                    ELSE Num(1)
  IN IF ~NotEqual(global_max, global_min)
     THEN Zeros(bands_data)
     ELSE [i \in DOMAIN bands_data |->
             IF ~valid_mask[i] THEN 0
             ELSE IF isnan(bands_data[i]) \/ isnan(global_min) \/ isnan(global_max)
                  THEN c
             ELSE ClipToUint8(Sub(dt, bands_data[i].v, global_min.v),
                              Sub(dt, global_max.v, global_min.v))]

\* band_data - min_value: in the element type for a Python int, in floating
\* point for a Python float.
SubScalar(dt, a, min_value) ==
  IF min_value.k = "int" THEN Sub(dt, a, min_value.v) ELSE a - min_value.v

\* Mutant of ScaleExplicit: np.where left out, so no-data samples are scaled
\* like the others.
ScaleExplicit_NoWhere(dt, band_data, nodata, min_value, max_value, c) ==
  IF max_value.v = min_value.v
  THEN Zeros(band_data)
  ELSE [i \in DOMAIN band_data |->
          IF isnan(band_data[i]) THEN c
          ELSE ClipToUint8(SubScalar(dt, band_data[i].v, min_value),
                           max_value.v - min_value.v)]

\* The explicit branch of convert_raster_to_rgb: scaling with the given
\* min_value and max_value; max_value - min_value is Python arithmetic.
ScaleExplicit(dt, band_data, nodata, min_value, max_value, c) ==
  LET valid_mask == ValidMask(band_data, nodata)
  IN IF max_value.v = min_value.v
     THEN Zeros(band_data)
     ELSE [i \in DOMAIN band_data |->
             IF ~valid_mask[i] THEN 0
             ELSE IF isnan(band_data[i]) THEN c
             ELSE ClipToUint8(SubScalar(dt, band_data[i].v, min_value),
                              max_value.v - min_value.v)]

\* Lines 123-140: the explicit branch when both bounds are given, else
\* scale_to_8bit.
ScaledData(dt, band_data, nodata, min_value, max_value, c) ==
  IF ~IsNone(min_value) /\ ~IsNone(max_value)
  THEN ScaleExplicit(dt, band_data, nodata, min_value, max_value, c)
  ELSE scale_to_8bit(dt, band_data, nodata, c)

-----------------------------------------------------------------------------
VARIABLES
  entry,        \* "main": run from the command line; "api": convert_raster_to_rgb called directly
  pc,           \* position in main / convert_raster_to_rgb
  input_exists, \* os.path.exists(args.input)
  num_bands,    \* src.count
  dtype,        \* element type of the source bands
  nodata,       \* src.nodata
  band_r, band_g, band_b,
  min_value, max_value,
  src_open,     \* the source raster has been opened
  reads,        \* band indices read so far, in order
  band_data,    \* samples read so far, channel by channel
  scaled_data,  \* the uint8 result, <<>> before scaling
  out_image,    \* "absent", "open", "closed_partial", "closed_complete"
  world_file,   \* "absent", "partial", "written"
  error,        \* the exception raised by convert_raster_to_rgb
  stderr,       \* lines printed to standard error
  exit_code     \* <<>> while running, <<n>> after the process exits with n

vars == <<entry, pc, input_exists, num_bands, dtype, nodata, band_r, band_g,
          band_b, min_value, max_value, src_open, reads, band_data,
          scaled_data, out_image, world_file, error, stderr, exit_code>>

\* The arguments and the source file, fixed during a run.
inputs == <<entry, input_exists, num_bands, dtype, nodata, band_r, band_g,
            band_b, min_value, max_value>>

NoError == [kind |-> "none", channel |-> "", index |-> 0, count |-> 0]
Failure(kind) == [kind |-> kind, channel |-> "", index |-> 0, count |-> 0]

-----------------------------------------------------------------------------
(* Initial states *)

\* Sample values and bounds of the whole-program runs (a small choice: the
\* scaling itself is examined under SpecScale with the full sets).
PipelineSamples(dt) ==
  CASE dt = "int16" -> {Num(-20000), Num(20000)}
    [] dt = "uint16" -> {Num(0), Num(15000)}
    [] OTHER -> {NaN, Num(10000)}

\* A run of the program: main from the command line, or a direct call of
\* convert_raster_to_rgb, with any arguments and any source file.
Init ==
  /\ entry \in {"main", "api"}
  /\ pc = IF entry = "main" THEN "main_exists" ELSE "open"
  /\ input_exists \in BOOLEAN
  /\ num_bands \in 1..MaxBands
  /\ dtype \in DTypes
  /\ nodata \in {None, Num(0)}
  /\ band_r \in 0..(num_bands + 1)
  /\ band_g \in 0..(num_bands + 1)
  /\ band_b \in 0..(num_bands + 1)
  /\ min_value \in {None, PyFloat(0), PyInt(0)}
  /\ max_value \in {None, PyFloat(10000), PyInt(10000)}
  /\ entry = "main" => (min_value.k # "int" /\ max_value.k # "int")
  /\ src_open = FALSE
  /\ reads = <<>>
  /\ band_data = <<>>
  /\ scaled_data = <<>>
  /\ out_image = "absent"
  /\ world_file = "absent"
  /\ error = NoError
  /\ stderr = <<>>
  /\ exit_code = <<>>

\* convert_raster_to_rgb just before line 123: the source is open, the three
\* bands are read, and the scaling is about to run on them.
InitScale ==
  /\ entry = "api"
  /\ pc = "scale"
  /\ input_exists = TRUE
  /\ num_bands = 3
  /\ dtype \in DTypes
  /\ nodata \in NodataValues(dtype)
  /\ band_r = 1
  /\ band_g = 2
  /\ band_b = 3
  /\ \/ min_value = None /\ max_value = None
     \/ /\ min_value \in DomainValues(dtype, "int")
        /\ max_value \in DomainValues(dtype, "int")
     \/ /\ min_value \in DomainValues(dtype, "float")
        /\ max_value \in DomainValues(dtype, "float")
  /\ src_open = TRUE
  /\ reads = <<1, 2, 3>>
  /\ band_data \in [Positions -> SampleValues(dtype)]
  /\ scaled_data = <<>>
  /\ out_image = "absent"
  /\ world_file = "absent"
  /\ error = NoError
  /\ stderr = <<>>
  /\ exit_code = <<>>

-----------------------------------------------------------------------------
(* main *)

ErrorLine(text) == [prefix |-> "Error:", text |-> text]

\* print(..., file=sys.stderr); sys.exit(1)
ExitWithError(text) ==
  /\ stderr' = Append(stderr, ErrorLine(text))
  /\ exit_code' = <<1>>
  /\ pc' = "exited"

\* Mutant of MainCheckInput: the error is printed but sys.exit(1) is left out.
MainCheckInput_NoExit ==
  /\ entry = "main" /\ pc = "main_exists"
  /\ IF ~input_exists
     THEN stderr' = Append(stderr, ErrorLine("Input file not found."))
     ELSE UNCHANGED stderr
  /\ pc' = "main_minmax"
  /\ UNCHANGED <<inputs, src_open, reads, band_data, scaled_data, out_image,
                 world_file, error, exit_code>>

\* Lines 214-217: the input file must exist.
MainCheckInput ==
  /\ entry = "main" /\ pc = "main_exists"
  /\ IF ~input_exists
     THEN ExitWithError("Input file not found.")
     ELSE pc' = "main_minmax" /\ UNCHANGED <<stderr, exit_code>>
  /\ UNCHANGED <<inputs, src_open, reads, band_data, scaled_data, out_image,
                 world_file, error>>

\* (args.min is not None) != (args.max is not None)
PartialMinMax(lo, hi) == (~IsNone(lo)) # (~IsNone(hi))

\* Lines 219-233: --min and --max come together; then the conversion is called.
MainCheckMinMax ==
  /\ entry = "main" /\ pc = "main_minmax"
  /\ IF PartialMinMax(min_value, max_value)
     THEN ExitWithError("Both --min and --max must be specified together.")
     ELSE pc' = "open" /\ UNCHANGED <<stderr, exit_code>>
  /\ UNCHANGED <<inputs, src_open, reads, band_data, scaled_data, out_image,
                 world_file, error>>

\* Lines 234-236: except Exception as e: print "Error: {e}", exit 1.
MainExcept ==
  /\ entry = "main" /\ pc = "raised"
  /\ ExitWithError(error.kind)
  /\ UNCHANGED <<inputs, src_open, reads, band_data, scaled_data, out_image,
                 world_file, error>>

\* main returns after the conversion returned: the process exits with 0.
MainReturn ==
  /\ entry = "main" /\ pc = "returned"
  /\ exit_code' = <<0>>
  /\ pc' = "exited"
  /\ UNCHANGED <<inputs, src_open, reads, band_data, scaled_data, out_image,
                 world_file, error, stderr>>

-----------------------------------------------------------------------------
(* convert_raster_to_rgb *)

\* An exception leaves convert_raster_to_rgb; the with block closes the source.
Raise(e) ==
  /\ error' = e
  /\ pc' = "raised"
  /\ src_open' = FALSE

\* Line 104: rasterio.open(input_path); it fails when the file is missing or
\* is not a readable raster.
Open ==
  /\ pc = "open"
  /\ \/ /\ input_exists
        /\ src_open' = TRUE
        /\ pc' = "validate"
        /\ UNCHANGED error
     \/ Raise(Failure("SourceOpenError"))
  /\ UNCHANGED <<inputs, reads, band_data, scaled_data, out_image, world_file,
                 stderr, exit_code>>

\* Mutant of OutOfRange: the lower bound off by one (0 accepted).
OutOfRange_OffByOne(band_idx, n) == band_idx < 0 \/ band_idx > n

\* Line 108: band_idx < 1 or band_idx > num_bands
OutOfRange(band_idx, n) == band_idx < 1 \/ band_idx > n

\* Line 107: the channels in the order they are checked.
Channels(r, g, b) ==
  << [idx |-> r, name |-> "Red"], [idx |-> g, name |-> "Green"],
     [idx |-> b, name |-> "Blue"] >>

\* Lines 107-110: the error of the first channel out of range, NoError if none.
BandIndexError(r, g, b, n) ==
  LET chs == Channels(r, g, b)
      bad == {i \in 1..3 : OutOfRange(chs[i].idx, n)}
  IN IF bad = {} THEN NoError
     ELSE LET i == CHOOSE j \in bad : \A k \in bad : j <= k
          IN [kind |-> "BandIndexOutOfRange", channel |-> chs[i].name,
              index |-> chs[i].idx, count |-> n]

\* Lines 105-110: validate the band indices.
Validate ==
  /\ pc = "validate"
  /\ LET e == BandIndexError(band_r, band_g, band_b, num_bands)
     IN IF e # NoError
        THEN Raise(e)
        ELSE pc' = "read_r" /\ UNCHANGED <<error, src_open>>
  /\ UNCHANGED <<inputs, reads, band_data, scaled_data, out_image, world_file,
                 stderr, exit_code>>

\* The samples src.read(idx) returns: those read before from the same band,
\* else any content of the file.
BandContents(idx) ==
  IF \E k \in 1..Len(reads) : reads[k] = idx
  THEN LET k == CHOOSE j \in 1..Len(reads) : reads[j] = idx
       IN {SubSeq(band_data, (k - 1) * NumPixels + 1, k * NumPixels)}
  ELSE [1..NumPixels -> PipelineSamples(dtype)]

\* src.read(idx): the band is read, or the read fails.
Read(at, idx, then) ==
  /\ pc = at
  /\ \/ /\ \E data \in BandContents(idx) : band_data' = band_data \o data
        /\ reads' = Append(reads, idx)
        /\ pc' = then
        /\ UNCHANGED <<error, src_open>>
     \/ /\ Raise(Failure("BandReadError"))
        /\ UNCHANGED <<reads, band_data>>
  /\ UNCHANGED <<inputs, scaled_data, out_image, world_file, stderr, exit_code>>

\* Lines 114-118
ReadRed == Read("read_r", band_r, "read_g")
ReadGreen == Read("read_g", band_g, "read_b")
ReadBlue == Read("read_b", band_b, "scale")

\* Lines 120-140: scale the three bands to 8 bits.
Scale ==
  /\ pc = "scale"
  /\ \E c \in NaNCastOutcomes :
       scaled_data' = ScaledData(dtype, band_data, nodata, min_value, max_value, c)
  /\ pc' = "write_open"
  /\ UNCHANGED <<inputs, src_open, reads, band_data, out_image, world_file,
                 error, stderr, exit_code>>

\* Line 155: rasterio.open(output_path, 'w', ...) creates the output image.
WriteOpen ==
  /\ pc = "write_open"
  /\ \/ /\ out_image' = "open"
        /\ pc' = "write_bands"
        /\ UNCHANGED <<error, src_open>>
     \/ /\ Raise(Failure("OutputWriteError"))
        /\ UNCHANGED out_image
  /\ UNCHANGED <<inputs, reads, band_data, scaled_data, world_file, stderr,
                 exit_code>>

\* Lines 156-165: the three bands are written and the image is closed; a
\* failing write leaves the with block, which closes the unfinished image.
WriteBands ==
  /\ pc = "write_bands"
  /\ \/ /\ out_image' = "closed_complete"
        /\ pc' = "world"
        /\ UNCHANGED <<error, src_open>>
     \/ /\ out_image' = "closed_partial"
        /\ Raise(Failure("OutputWriteError"))
  /\ UNCHANGED <<inputs, reads, band_data, scaled_data, world_file, stderr,
                 exit_code>>

\* Lines 17-44 and 168: the world file is opened for writing and six lines
\* are written; opening may fail, and so may a write.
create_world_file ==
  /\ pc = "world"
  /\ \/ /\ world_file' = "written"
        /\ pc' = "summary"
        /\ UNCHANGED <<error, src_open>>
     \/ /\ UNCHANGED world_file
        /\ Raise(Failure("WorldFileError"))
     \/ /\ world_file' = "partial"
        /\ Raise(Failure("WorldFileError"))
  /\ UNCHANGED <<inputs, reads, band_data, scaled_data, out_image, stderr,
                 exit_code>>

\* Lines 171-177: the summary is printed and the call returns.
Summary ==
  /\ pc = "summary"
  /\ pc' = "returned"
  /\ src_open' = FALSE
  /\ UNCHANGED <<inputs, reads, band_data, scaled_data, out_image, world_file,
                 error, stderr, exit_code>>

-----------------------------------------------------------------------------
Next ==
  \/ MainCheckInput
  \/ MainCheckMinMax
  \/ Open
  \/ Validate
  \/ ReadRed
  \/ ReadGreen
  \/ ReadBlue
  \/ Scale
  \/ WriteOpen
  \/ WriteBands
  \/ create_world_file
  \/ Summary
  \/ MainExcept
  \/ MainReturn

Spec == Init /\ [][Next]_vars

\* The scaling step alone, on every buffer of the full sample sets.
NextScale == Scale

SpecScale == InitScale /\ [][NextScale]_vars

-----------------------------------------------------------------------------
(* The scaling claims, stated with exact arithmetic on the buffer that was *)
(* scaled.                                                                 *)

Scaled == scaled_data # <<>>

AutoDomain == IsNone(min_value) /\ IsNone(max_value)
ExplicitDomain == ~IsNone(min_value) /\ ~IsNone(max_value)

\* The validity mask is false at position i: the sample equals the no-data
\* sentinel, or is NaN when no sentinel is defined.
Masked(i) ==
  IF ~IsNone(nodata)
  THEN band_data[i].k = "num" /\ nodata.k = "num" /\ band_data[i].v = nodata.v
  ELSE band_data[i].k = "nan"

ValidPositions == {i \in DOMAIN band_data : ~Masked(i)}

\* Every valid sample is a number, so that the minimum and the maximum of
\* the valid samples and the scaled values are defined.
ValidAreNumbers == \A i \in ValidPositions : band_data[i].k = "num"

JointMin == CHOOSE m \in {band_data[i].v : i \in ValidPositions} :
              \A i \in ValidPositions : m <= band_data[i].v
JointMax == CHOOSE m \in {band_data[i].v : i \in ValidPositions} :
              \A i \in ValidPositions : m >= band_data[i].v

\* The scaling domain the specification describes.
Low == IF ExplicitDomain THEN min_value.v
       ELSE IF ValidPositions = {} THEN 0 ELSE JointMin
High == IF ExplicitDomain THEN max_value.v
        ELSE IF ValidPositions = {} THEN 1 ELSE JointMax

\* clip(round(n / d * 255), 0, 255) for d # 0, rounding half to even.
ClipRound(n, d) ==
  LET nn == IF d < 0 THEN -n ELSE n
      dd == IF d < 0 THEN -d ELSE d
      q == (nn * 255) \div dd
      r == (nn * 255) % dd
      rounded == IF 2 * r < dd THEN q
                 ELSE IF 2 * r > dd THEN q + 1
                 ELSE IF q % 2 = 0 THEN q ELSE q + 1
  IN IF rounded < 0 THEN 0 ELSE IF rounded > 255 THEN 255 ELSE rounded

\* C1: for a domain with low # high, every valid sample s gives
\* clip(round((s - low) / (high - low) * 255), 0, 255), in the automatic and
\* in the explicit path.
C1_RoundedScaling ==
  (Scaled /\ ValidAreNumbers /\ Low # High) =>
     \A i \in ValidPositions :
        scaled_data[i] = ClipRound(band_data[i].v - Low, High - Low)

C2_WitnessNaN ==
  /\ Scaled /\ AutoDomain /\ IsNone(nodata)
  /\ \E i, j \in DOMAIN band_data :
        Masked(i) /\ ~Masked(j) /\ scaled_data[j] > 0

\* C3: every output element lies in [0, 255], and with an explicit domain
\* low < high a valid sample above high gives 255 and one below low gives 0.
C3_RangeAndSaturation ==
  Scaled =>
    /\ \A i \in DOMAIN scaled_data : scaled_data[i] \in 0..255
    /\ (ExplicitDomain /\ min_value.v < max_value.v) =>
          \A i \in ValidPositions :
             band_data[i].k = "num" =>
                /\ band_data[i].v > max_value.v => scaled_data[i] = 255
                /\ band_data[i].v < min_value.v => scaled_data[i] = 0

C4_WitnessAllNodata ==
  Scaled /\ AutoDomain /\ ValidPositions = {} /\ ~IsNone(nodata)

\* The outputs do not decrease with the valid samples.
NonDecreasing ==
  \A i, j \in ValidPositions :
     (band_data[i].k = "num" /\ band_data[j].k = "num"
        /\ band_data[i].v <= band_data[j].v) => scaled_data[i] <= scaled_data[j]

\* C5: for any fixed domain, automatic or explicit, whatever the order of
\* its bounds, s1 <= s2 implies output(s1) <= output(s2).
C5_Monotone == Scaled => NonDecreasing

\* C10: with the explicit domain equal to the minimum and maximum of the
\* valid samples, the explicit path gives the output of the automatic path.
C10_PathsAgree ==
  (Scaled /\ ExplicitDomain /\ ValidAreNumbers /\ ValidPositions # {}
     /\ min_value.v = JointMin /\ max_value.v = JointMax)
    => \E c \in NaNCastOutcomes :
          scaled_data = scale_to_8bit(dtype, band_data, nodata, c)

-----------------------------------------------------------------------------
(* The claims about a whole run.                                           *)

\* The call of convert_raster_to_rgb has ended.
Ended == pc \in {"raised", "returned"}

\* Positions of convert_raster_to_rgb after the validation of the indices.
PastValidation ==
  pc \in {"read_r", "read_g", "read_b", "scale", "write_open", "write_bands",
          "world", "summary", "returned"}

BadIndex(idx) == idx < 1 \/ idx > num_bands
AnyBadIndex == BadIndex(band_r) \/ BadIndex(band_g) \/ BadIndex(band_b)

\* The first channel, in the order red, green, blue, whose index is bad.
FirstBadChannel ==
  IF BadIndex(band_r) THEN [name |-> "Red", idx |-> band_r]
  ELSE IF BadIndex(band_g) THEN [name |-> "Green", idx |-> band_g]
  ELSE [name |-> "Blue", idx |-> band_b]

\* C6: an index < 1 or > the band count makes the call fail with the
\* band-index error before any band is read and before an output file is
\* created; the error names the first offending channel, its index and the
\* band count; indices in range are accepted, equal or not.
C6_BandIndexValidation ==
  /\ AnyBadIndex =>
        /\ ~PastValidation
        /\ reads = <<>> /\ out_image = "absent" /\ world_file = "absent"
        /\ (pc \in {"raised", "exited"}
              /\ error.kind \notin {"none", "SourceOpenError"})
             => error = [kind |-> "BandIndexOutOfRange",
                         channel |-> FirstBadChannel.name,
                         index |-> FirstBadChannel.idx,
                         count |-> num_bands]
  /\ error.kind = "BandIndexOutOfRange" => AnyBadIndex

\* C6 witness: red is in range, green and blue are not, and the error raised
\* names green.
C6_Witness ==
  /\ pc = "raised" /\ error.kind = "BandIndexOutOfRange"
  /\ ~BadIndex(band_r) /\ BadIndex(band_g) /\ BadIndex(band_b)
  /\ error.channel = "Green" /\ error.index = band_g

\* C6, second case: the same band for the three channels is read three times.
C6_WitnessEqualIndices ==
  band_r = band_g /\ band_g = band_b /\ Len(reads) = 3

\* Exactly one of min_value / max_value is given.
PartialDomain == IsNone(min_value) # IsNone(max_value)

\* C7: convert_raster_to_rgb called with exactly one of min_value / max_value
\* never goes on to produce an image (it fails before any I/O).
C7_PartialDomainRejected ==
  PartialDomain => (out_image # "closed_complete" /\ pc # "returned")

\* C8: when the call has ended, either the image and the world file are both
\* written, or the call failed and no image was written.
C8_AllOrNothing ==
  Ended =>
    \/ out_image = "closed_complete" /\ world_file = "written"
    \/ error # NoError /\ out_image # "closed_complete" /\ world_file = "absent"

\* C9: main exits with 1 and an "Error:" line on standard error when the
\* input file is missing, when exactly one of --min / --max is given, and
\* when the conversion raises; in the first two cases the conversion is not
\* invoked; it exits with 0 only when the conversion returned.
C9_ExitCodes ==
  entry = "main" =>
    /\ (~input_exists \/ PartialDomain) =>
          /\ pc \in {"main_exists", "main_minmax", "exited"}
          /\ src_open = FALSE /\ reads = <<>> /\ error = NoError
          /\ out_image = "absent" /\ world_file = "absent"
          /\ pc = "exited" => exit_code = <<1>>
    /\ (pc = "exited" /\ error # NoError) => exit_code = <<1>>
    /\ pc = "exited" => exit_code \in {<<0>>, <<1>>}
    /\ pc # "exited" => exit_code = <<>>
    /\ exit_code = <<1>> =>
          Len(stderr) = 1 /\ stderr[1].prefix = "Error:"
    /\ exit_code = <<0>> =>
          /\ error = NoError /\ stderr = <<>>
          /\ out_image = "closed_complete" /\ world_file = "written"
          /\ Scaled

\* C9 witness: the conversion raised after the image was written, and main
\* turned that into exit code 1.
C9_Witness ==
  /\ entry = "main" /\ pc = "exited" /\ exit_code = <<1>>
  /\ error.kind = "WorldFileError"

\* C9, the other cases: missing input; one of --min / --max; success.
C9_WitnessMissingInput ==
  entry = "main" /\ pc = "exited" /\ ~input_exists /\ exit_code = <<1>>

C9_WitnessPartial ==
  entry = "main" /\ pc = "exited" /\ input_exists /\ PartialDomain
    /\ exit_code = <<1>>

C9_WitnessSuccess ==
  entry = "main" /\ pc = "exited" /\ exit_code = <<0>>

=============================================================================
